---- MODULE Spec2Model ----
(***************************************************************************)
(* A model of ModelCheckerForMaya: the checker classes of checker.py and   *)
(* the widgets of modelSanityChecker.py that run them (check, fix,         *)
(* checkAll, fixAll, the enable checkboxes).                               *)
(*                                                                         *)
(* Strings are sequences of tokens ("|", ".", and name tokens), so that    *)
(* str.split is computed.  A Python list is a sequence, an Optional value  *)
(* is a sequence of length 0 (None) or 1.  A Python call that may raise    *)
(* returns a record with a field `raised`.                                 *)
(*                                                                         *)
(* The Maya scene (maya.cmds) and the meshChecker / uvChecker plugins are  *)
(* external: the scene is a small DAG of named nodes with the attributes   *)
(* the modelled checkers read, and a plugin call answers with any value    *)
(* of a bounded set of answers, or raises.                                 *)
(***************************************************************************)
EXTENDS Naturals, Sequences, FiniteSets, TLC

VARIABLES
    scene,      \* the Maya scene: nodes, attributes, selection
    settings,   \* the Settings widget handed to the checkers
    isEnabled,  \* checker.isEnabled, per checker
    checkbox,   \* CheckerWidget.checkbox, per checker
    sepChecked, \* Separator.checkbox, per category
    allChecked, \* the "Select All" checkbox
    errors,     \* checker.errors, per checker
    shown,      \* CheckerWidget.errorList items, per checker
    rootLE,     \* ModelSanityChecker.rootLE text
    batch,      \* position of a running checkAll loop
    last,       \* history: the last handler run and the calls it made
    steps,      \* history: how many things the user has done
    built       \* the registry the window was built from, and its checkerWidgets

vars == <<scene, settings, isEnabled, checkbox, sepChecked, allChecked,
          errors, shown, rootLE, batch, last, steps, built>>

-----------------------------------------------------------------------------
(* Python values *)

None == <<>>

Some(x) == <<x>>

Range(s) == {s[i] : i \in 1..Len(s)}

\* s.split(d): the parts of s between the occurrences of d.
RECURSIVE SplitFrom(_, _, _, _)
SplitFrom(s, d, i, cur) ==
    IF i > Len(s) THEN <<cur>>
    ELSE IF s[i] = d THEN <<cur>> \o SplitFrom(s, d, i + 1, <<>>)
    ELSE SplitFrom(s, d, i + 1, Append(cur, s[i]))

Split(s, d) == SplitFrom(s, d, 1, <<>>)

\* "|".join(parts[:-1]) of a full path: the path of the parent node.
ParentPath(p) ==
    LET bars == {i \in 1..Len(p) : p[i] = "|"}
    IN  IF bars = {} THEN <<>>
        ELSE SubSeq(p, 1, (CHOOSE i \in bars : \A j \in bars : j <= i) - 1)

IsUnder(n, p) == Len(n) > Len(p) /\ SubSeq(n, 1, Len(p)) = p /\ n[Len(p) + 1] = "|"

-----------------------------------------------------------------------------
(* The scene *)

A == <<"|", "a">>

AB == <<"|", "a", "|", "b">>

AC == <<"|", "a", "|", "c">>

ABm == <<"|", "a", "|", "b", "|", "m">>

ABs == <<"|", "a", "|", "b", "|", "b", "Shape">>

ABs1 == <<"|", "a", "|", "b", "|", "b", "Shape", "1">>

ABo == <<"|", "a", "|", "b", "|", "b", "Shape", "Orig">>

ACs == <<"|", "a", "|", "c", "|", "c", "Shape">>

Transforms == {A, AB, AC}

Meshes == {ABm, ABs, ABs1, ABo, ACs}

\* The order in which the scene lists nodes.
DagOrder == <<A, AB, ABm, ABs, ABs1, ABo, AC, ACs>>

SeqOf(S) == SelectSeq(DagOrder, LAMBDA n : n \in S)

NodeType(n) == IF n \in Meshes THEN "mesh" ELSE "transform"

\* cmds.objExists
objExists(sc, n) == n \in sc.nodes

\* cmds.ls(sl=True, fl=True, long=True)
ls_sl(sc) == sc.sel

\* The node a name stands for: itself, or the node before the "." of a component.
NodeOf(x) == Split(x, ".")[1]

\* The items of a list, each once, in the order they first come in.
RECURSIVE Once(_)
Once(s) ==
    IF s = <<>> THEN <<>>
    ELSE LET front == Once(SubSeq(s, 1, Len(s) - 1))
             x == s[Len(s)]
         IN  IF x \in Range(front) THEN front ELSE Append(front, x)

\* cmds.select(items, r=True): the selection becomes the items; when the scene lacks
\* one of them it raises and the selection stays.
select_r(sc, items) ==
    IF \E i \in 1..Len(items) : NodeOf(items[i]) \notin sc.nodes
    THEN [raised |-> TRUE, scene |-> sc]
    ELSE [raised |-> FALSE, scene |-> [sc EXCEPT !.sel = Once(items)]]

\* cmds.listRelatives(objs, ad=True, fullPath=True, type=typ): every descendant of
\* that type, each once; None when there is none; raises when an object is missing.
listRelatives_ad(sc, objs, typ) ==
    IF \E i \in 1..Len(objs) : objs[i] \notin sc.nodes
    THEN [raised |-> TRUE, ret |-> None]
    ELSE [raised |-> FALSE,
          ret |-> SeqOf({n \in sc.nodes : NodeType(n) = typ
                            /\ \E i \in 1..Len(objs) : IsUnder(n, objs[i])})]

\* cmds.listRelatives(obj, children=True, type="mesh")
listRelatives_children(sc, obj, typ) ==
    IF obj \notin sc.nodes
    THEN [raised |-> TRUE, ret |-> None]
    ELSE [raised |-> FALSE,
          ret |-> SeqOf({n \in sc.nodes : NodeType(n) = typ /\ ParentPath(n) = obj})]

\* cmds.listRelatives(shape, parent=True, fullPath=False): the parent's short name.
listRelatives_parent(sc, shape) ==
    IF shape \notin sc.nodes
    THEN [raised |-> TRUE, ret |-> None]
    ELSE [raised |-> FALSE,
          ret |-> IF ParentPath(shape) = <<>> THEN None
                  ELSE <<Split(ParentPath(shape), "|")[Len(Split(ParentPath(shape), "|"))]>>]

\* cmds.listRelatives(obj, children=True, fullPath=True, shapes=True)
listRelatives_shapes(sc, obj) == listRelatives_children(sc, obj, "mesh")

\* cmds.listConnections(m + ".inMesh", source=True): None when nothing feeds the mesh.
listConnections_inMesh(sc, m) == IF m \in sc.inMesh THEN Some("history") ELSE None

\* cmds.getAttr(obj + "." + at, lock=True)
getAttr_lock(sc, obj, at) == <<obj, at>> \in sc.locked

\* cmds.getAttr(mesh + ".displaySmoothMesh")
getAttr_displaySmoothMesh(sc, mesh) == mesh \in sc.smooth

\* cmds.getAttr(shape + ".intermediateObject")
getAttr_intermediateObject(sc, shape) == shape \in sc.intermediate

\* A node's path after its parent's subtree is left alone and the node itself is renamed.
Renamed(n, old, new) == IF n = old THEN new ELSE n

\* cmds.rename(shape, newName): the node keeps its parent and its attributes; a name
\* already taken by a sibling gets a number appended.
rename(sc, shape, newName) ==
    LET want == ParentPath(shape) \o <<"|">> \o newName
        new == IF want \in sc.nodes /\ want # shape THEN want \o <<"1">> ELSE want
    IN  [sc EXCEPT
            !.nodes = {Renamed(n, shape, new) : n \in @},
            !.inMesh = {Renamed(n, shape, new) : n \in @},
            !.smooth = {Renamed(n, shape, new) : n \in @},
            !.intermediate = {Renamed(n, shape, new) : n \in @},
            !.sel = [i \in 1..Len(@) |-> Renamed(@[i], shape, new)]]

\* cmds.delete(obj, ch=True): the construction history of obj is deleted, so nothing
\* feeds the meshes under it any more.
delete_ch(sc, obj) == [sc EXCEPT !.inMesh = {m \in @ : ParentPath(m) # obj}]

\* The user deletes a node in Maya: it goes with its descendants, and leaves the selection.
DeleteNode(sc, n) ==
    LET gone == {x \in sc.nodes : x = n \/ IsUnder(x, n)}
    IN  [sc EXCEPT
            !.nodes = @ \ gone,
            !.inMesh = @ \ gone,
            !.smooth = @ \ gone,
            !.intermediate = @ \ gone,
            !.locked = {l \in @ : l[1] \notin gone},
            !.sel = SelectSeq(@, LAMBDA x : NodeOf(x) \notin gone)]

-----------------------------------------------------------------------------
(* checker.py: Error and the checkers *)

\* Error.__init__(fullPath, errors=None)
Error(fullPath, errs) ==
    [components |-> errs,
     longName |-> fullPath,
     shortName |-> Split(fullPath, "|")[Len(Split(fullPath, "|"))]]

RECURSIVE Flatten(_)
Flatten(ss) == IF ss = <<>> THEN <<>> ELSE Head(ss) \o Flatten(Tail(ss))

\* errorsDict: the keys in insertion order, each with its list.
DictIndex(d, base) == {i \in 1..Len(d) : d[i][1] = base}

\* errorsDict[base] = [e] whether or not base is a key already.
DictAdd_overwrite(d, base, e) ==
    IF DictIndex(d, base) # {}
    THEN [i \in 1..Len(d) |-> IF d[i][1] = base THEN <<base, <<e>>>> ELSE d[i]]
    ELSE Append(d, <<base, <<e>>>>)

DictAdd(d, base, e) ==
    IF DictIndex(d, base) # {}
    THEN [i \in 1..Len(d) |-> IF d[i][1] = base THEN <<base, Append(d[i][2], e)>> ELSE d[i]]
    ELSE Append(d, <<base, <<e>>>>)

\* for e in errs: base, comp = e.split("."); group e under base.  The unpacking
\* raises ValueError unless the split has exactly two parts.
RECURSIVE AggregateLoop(_, _, _)
AggregateLoop(errs, i, d) ==
    IF i > Len(errs) THEN [raised |-> FALSE, dict |-> d]
    ELSE LET parts == Split(errs[i], ".")
         IN  IF Len(parts) # 2 THEN [raised |-> TRUE, dict |-> d]
             ELSE AggregateLoop(errs, i + 1, DictAdd(d, parts[1], errs[i]))

\* for err_key in errorsDict: self.errors.append(Error(err_key, errorsDict[err_key]))
AggregateErrors(d) == [i \in 1..Len(d) |-> Error(d[i][1], Some(d[i][2]))]

\* The checkIt shared by the checkers that group the plugin's "owner.component"
\* answers by owner (TriangleChecker and the like); o is the plugin's answer.
TriangleChecker_checkIt(objs, o) ==
    IF o.raised THEN [errors |-> <<>>, raised |-> TRUE]
    ELSE LET r == AggregateLoop(o.ret, 1, <<>>)
         IN  IF r.raised THEN [errors |-> <<>>, raised |-> TRUE]
             ELSE [errors |-> AggregateErrors(r.dict), raised |-> FALSE]

\* Settings.getSettings(): float(self.maxFaceArea.text()); settings is None when the
\* checker widget was built without one.
getSettings(st) == [raised |-> st # "ok"]

ZeroAreaFaceChecker_checkIt(old, objs, st, o) ==
    IF getSettings(st).raised THEN [errors |-> old, raised |-> TRUE]
    ELSE TriangleChecker_checkIt(objs, o)

\* The checkIt of the checkers whose plugin answers are whole objects.
VertexPntsChecker_checkIt(objs, o) ==
    IF o.raised THEN [errors |-> <<>>, raised |-> TRUE]
    ELSE [errors |-> [i \in 1..Len(o.ret) |-> Error(o.ret[i], None)], raised |-> FALSE]

NameChecker_checkIt(objs) == [errors |-> <<>>, raised |-> FALSE]

\* cmds.polyInfo(mesh, nmv=True): the plugin answers that belong to the mesh, None when
\* there is none; RuntimeError when the query fails.
polyInfo_nmv(mesh, o) ==
    [raised |-> o.raised,
     ret |-> SelectSeq(o.ret, LAMBDA e : Split(e, ".")[1] = mesh)]

NonmanifoldVertexChecker_checkIt(objs, sc, o) ==
    LET children == listRelatives_ad(sc, objs, "mesh")
        one(mesh) == LET errs == polyInfo_nmv(mesh, o)
                     IN  IF ~errs.raised /\ errs.ret # None
                         THEN <<Error(mesh, Some(errs.ret))>> ELSE <<>>
    IN  IF children.raised \/ children.ret = None
        THEN [errors |-> <<>>, raised |-> TRUE]
        ELSE [errors |-> Flatten([i \in 1..Len(children.ret) |-> one(children.ret[i])]),
              raised |-> FALSE]

\* "x or []" of a listRelatives answer.
OrEmpty(r) == r.ret

\* HistoryChecker.checkIt: one Error(obj) for every mesh child of obj that something feeds.
HistoryChecker_perObj(sc, obj) ==
    LET mesh == listRelatives_children(sc, obj, "mesh").ret
    IN  IF mesh = None THEN <<>>
        ELSE Flatten([j \in 1..Len(mesh) |->
                IF listConnections_inMesh(sc, mesh[j]) # None
                THEN <<Error(obj, None)>> ELSE <<>>])

HistoryChecker_checkIt(root, sc) ==
    LET objs == listRelatives_ad(sc, root, "transform")
    IN  IF objs.raised THEN [errors |-> <<>>, raised |-> TRUE]
        ELSE [errors |-> Flatten([i \in 1..Len(OrEmpty(objs)) |->
                            HistoryChecker_perObj(sc, OrEmpty(objs)[i])]),
              raised |-> FALSE]

\* ShapeNameChecker.checkIt: the shapes, intermediate ones apart, not named <parent>Shape.
ShapeNameChecker_perObj(sc, obj) ==
    LET shapes == OrEmpty(listRelatives_shapes(sc, obj))
        shortName == Split(obj, "|")[Len(Split(obj, "|"))]
        bad(shape) == ~getAttr_intermediateObject(sc, shape)
                      /\ shortName \o <<"Shape">> # Split(shape, "|")[Len(Split(shape, "|"))]
    IN  Flatten([j \in 1..Len(shapes) |->
            IF bad(shapes[j]) THEN <<Error(shapes[j], None)>> ELSE <<>>])

ShapeNameChecker_checkIt(root, sc) ==
    LET objs == listRelatives_ad(sc, root, "transform")
    IN  IF objs.raised THEN [errors |-> <<>>, raised |-> TRUE]
        ELSE [errors |-> Flatten([i \in 1..Len(OrEmpty(objs)) |->
                            ShapeNameChecker_perObj(sc, OrEmpty(objs)[i])]),
              raised |-> FALSE]

\* LockedTransformChecker.__init__: self.attrs
attrs == <<"tx", "ty", "tz", "rx", "ry", "rz", "sx", "sy", "sz">>

\* LockedTransformChecker.checkIt: the loop over attrs stops at the first locked one.
LockedTransformChecker_perObj(sc, obj) ==
    IF \E k \in 1..Len(attrs) : getAttr_lock(sc, obj, attrs[k])
    THEN <<Error(obj, None)>> ELSE <<>>

LockedTransformChecker_checkIt(root, sc) ==
    LET objs == listRelatives_ad(sc, root, "transform")
    IN  IF objs.raised THEN [errors |-> <<>>, raised |-> TRUE]
        ELSE [errors |-> Flatten([i \in 1..Len(OrEmpty(objs)) |->
                            LockedTransformChecker_perObj(sc, OrEmpty(objs)[i])]),
              raised |-> FALSE]

\* SmoothPreviewChecker.checkIt
SmoothPreviewChecker_checkIt(root, sc) ==
    LET meshes == listRelatives_ad(sc, root, "mesh")
    IN  IF meshes.raised THEN [errors |-> <<>>, raised |-> TRUE]
        ELSE [errors |-> Flatten([i \in 1..Len(OrEmpty(meshes)) |->
                            IF getAttr_displaySmoothMesh(sc, OrEmpty(meshes)[i])
                            THEN <<Error(OrEmpty(meshes)[i], None)>> ELSE <<>>]),
              raised |-> FALSE]

(* fixIt: what one iteration of "for e in self.errors" does to the scene.  `did` is  *)
(* the scene command carried out on the Finding's owner, None when it was skipped.  *)

HistoryChecker_fixOne(sc, e) ==
    IF ~objExists(sc, e.longName) THEN [scene |-> sc, raised |-> TRUE, did |-> None]
    ELSE [scene |-> delete_ch(sc, e.longName), raised |-> FALSE, did |-> Some(e.longName)]

ShapeNameChecker_fixOne(sc, e) ==
    LET parent == listRelatives_parent(sc, e.longName)
    IN  IF parent.raised \/ parent.ret = None
        THEN [scene |-> sc, raised |-> TRUE, did |-> None]
        ELSE [scene |-> rename(sc, e.longName, parent.ret[1] \o <<"Shape">>),
              raised |-> FALSE, did |-> Some(e.longName)]

LockedTransformChecker_fixOne(sc, e) ==
    IF ~objExists(sc, e.longName) THEN [scene |-> sc, raised |-> TRUE, did |-> None]
    ELSE [scene |-> [sc EXCEPT !.locked = {l \in @ : l[1] # e.longName}],
          raised |-> FALSE, did |-> Some(e.longName)]

SmoothPreviewChecker_fixOne(sc, e) ==
    IF ~objExists(sc, e.longName) THEN [scene |-> sc, raised |-> TRUE, did |-> None]
    ELSE [scene |-> [sc EXCEPT !.smooth = @ \ {e.longName}],
          raised |-> FALSE, did |-> Some(e.longName)]

\* VertexPntsChecker.fixIt: guarded by objExists, polyMoveVertex inside try/except.
VertexPntsChecker_fixOne(sc, e) ==
    IF objExists(sc, e.longName)
    THEN [scene |-> sc, raised |-> FALSE, did |-> Some(e.longName)]
    ELSE [scene |-> sc, raised |-> FALSE, did |-> None]

\* The fixIt bodies that are "pass".
Pass_fixOne(sc, e) == [scene |-> sc, raised |-> FALSE, did |-> None]

fixOne(c, sc, e) ==
    CASE c = "HistoryChecker" -> HistoryChecker_fixOne(sc, e)
      [] c = "ShapeNameChecker" -> ShapeNameChecker_fixOne(sc, e)
      [] c = "LockedTransformChecker" -> LockedTransformChecker_fixOne(sc, e)
      [] c = "SmoothPreviewChecker" -> SmoothPreviewChecker_fixOne(sc, e)
      [] c = "VertexPntsChecker" -> VertexPntsChecker_fixOne(sc, e)
      [] OTHER -> Pass_fixOne(sc, e)

\* for e in self.errors: ...  An exception ends the loop where it is raised.
RECURSIVE fixLoop(_, _, _, _, _)
fixLoop(c, errs, i, sc, done) ==
    IF i > Len(errs) THEN [scene |-> sc, raised |-> FALSE, done |-> done]
    ELSE LET r == fixOne(c, sc, errs[i])
         IN  IF r.raised THEN [scene |-> r.scene, raised |-> TRUE, done |-> done]
             ELSE fixLoop(c, errs, i + 1, r.scene, done \o r.did)

\* checker.fixIt()
fixIt(c, errs, sc) ==
    IF c \in {"HistoryChecker", "ShapeNameChecker", "LockedTransformChecker",
              "SmoothPreviewChecker", "VertexPntsChecker"}
    THEN fixLoop(c, errs, 1, sc, <<>>)
    ELSE [scene |-> sc, raised |-> FALSE, done |-> <<>>]

\* A checkIt that does not start from self.errors = []: it appends to the cached list.
checkIt_append(c, old, objs, st, sc, o) ==
    LET r == CASE c \in {"TriangleChecker", "UdimIntersectionChecker"}
                    -> TriangleChecker_checkIt(objs, o)
               [] c = "ZeroAreaFaceChecker" -> ZeroAreaFaceChecker_checkIt(<<>>, objs, st, o)
               [] c = "VertexPntsChecker" -> VertexPntsChecker_checkIt(objs, o)
               [] c = "NonmanifoldVertexChecker" -> NonmanifoldVertexChecker_checkIt(objs, sc, o)
               [] c = "HistoryChecker" -> HistoryChecker_checkIt(objs, sc)
               [] c = "ShapeNameChecker" -> ShapeNameChecker_checkIt(objs, sc)
               [] c = "LockedTransformChecker" -> LockedTransformChecker_checkIt(objs, sc)
               [] c = "SmoothPreviewChecker" -> SmoothPreviewChecker_checkIt(objs, sc)
               [] OTHER -> NameChecker_checkIt(objs)
    IN  [r EXCEPT !.errors = old \o @]

\* checker.checkIt(objs, settings)
checkIt(c, old, objs, st, sc, o) ==
    CASE c \in {"TriangleChecker", "UdimIntersectionChecker"} -> TriangleChecker_checkIt(objs, o)
      [] c = "ZeroAreaFaceChecker" -> ZeroAreaFaceChecker_checkIt(old, objs, st, o)
      [] c = "VertexPntsChecker" -> VertexPntsChecker_checkIt(objs, o)
      [] c = "NonmanifoldVertexChecker" -> NonmanifoldVertexChecker_checkIt(objs, sc, o)
      [] c = "HistoryChecker" -> HistoryChecker_checkIt(objs, sc)
      [] c = "ShapeNameChecker" -> ShapeNameChecker_checkIt(objs, sc)
      [] c = "LockedTransformChecker" -> LockedTransformChecker_checkIt(objs, sc)
      [] c = "SmoothPreviewChecker" -> SmoothPreviewChecker_checkIt(objs, sc)
      [] OTHER -> NameChecker_checkIt(objs)

-----------------------------------------------------------------------------
(* The registry: the modelled checker classes, in the order of CHECKERS *)

CHECKERS ==
    <<"NameChecker", "HistoryChecker", "TriangleChecker", "ZeroAreaFaceChecker",
      "VertexPntsChecker">>

\* __category__, as the code points of the string.
category(c) ==
    CASE c \in {"NameChecker", "ShapeNameChecker"} -> <<78, 97, 109, 101>>
      [] c = "HistoryChecker" -> <<78, 111, 100, 101>>
      [] c \in {"VertexPntsChecker", "LockedTransformChecker", "SmoothPreviewChecker"}
            -> <<65, 116, 116, 114, 105, 98, 117, 116, 101>>
      [] c = "UdimIntersectionChecker" -> <<85, 86>>
      [] c \in {"TriangleChecker", "NonmanifoldVertexChecker", "ZeroAreaFaceChecker"}
            -> <<84, 111, 112, 111, 108, 111, 103, 121>>

\* The class attribute isEnabled.
isEnabledDefault(c) == c # "NameChecker"

\* str.__lt__
RECURSIVE StrLt(_, _)
StrLt(a, b) ==
    IF b = <<>> THEN FALSE
    ELSE IF a = <<>> THEN TRUE
    ELSE IF Head(a) # Head(b) THEN Head(a) < Head(b)
    ELSE StrLt(Tail(a), Tail(b))

\* BaseChecker.__lt__
BaseChecker_lt(x, y) == StrLt(category(x), category(y))

\* An insertion that puts x before the first element that is not less than x.
InsertSorted_unstable(sorted, x) ==
    LET before == {i \in 1..Len(sorted) : ~BaseChecker_lt(sorted[i], x)}
        k == IF before = {} THEN Len(sorted) + 1
             ELSE CHOOSE i \in before : \A j \in before : i <= j
    IN  SubSeq(sorted, 1, k - 1) \o <<x>> \o SubSeq(sorted, k, Len(sorted))

\* list.sort(): stable; x goes before the first element it is less than.
InsertSorted(sorted, x) ==
    LET before == {i \in 1..Len(sorted) : BaseChecker_lt(x, sorted[i])}
        k == IF before = {} THEN Len(sorted) + 1
             ELSE CHOOSE i \in before : \A j \in before : i <= j
    IN  SubSeq(sorted, 1, k - 1) \o <<x>> \o SubSeq(sorted, k, Len(sorted))

RECURSIVE SortFrom(_, _, _)
SortFrom(xs, i, sorted) ==
    IF i > Len(xs) THEN sorted ELSE SortFrom(xs, i + 1, InsertSorted(sorted, xs[i]))

\* ModelSanityChecker.__init__ for a registry: checkerObjs.sort(); one CheckerWidget per
\* checker.
ModelSanityChecker_init(registry) ==
    [registry |-> registry, widgets |-> SortFrom(registry, 1, <<>>)]

\* The widget list of a window that leaves out checkerObjs.sort().
checkerWidgets_unsorted == ModelSanityChecker_init(CHECKERS).registry

\* self.checkerWidgets for the registry CHECKERS.
checkerWidgets == ModelSanityChecker_init(CHECKERS).widgets

Checkers == Range(CHECKERS)

Categories == {category(c) : c \in Checkers}

-----------------------------------------------------------------------------
(* modelSanityChecker.py: the handlers.  A handler works on a record W of what it *)
(* may change: the scene, every checker's errors and list widget, the calls made  *)
(* so far, and whether an exception is on its way out.                            *)

World == [scene |-> scene, errors |-> errors, shown |-> shown,
          calls |-> <<>>, visited |-> <<>>, raised |-> FALSE]

\* A call of checkIt or fixIt: with what (the objects for checkIt, the cached Findings
\* for fixIt), the path check() expanded (None for fixIt), the plugin's answer, whether
\* it raised, and the nodes fixIt acted on.
Call(fn, c, arg, path, o, raised, done) ==
    [fn |-> fn, c |-> c, arg |-> arg, path |-> path, o |-> o, raised |-> raised,
     done |-> done]

NoAnswer == [raised |-> FALSE, ret |-> <<>>]

\* doCheck on checkers that all hold one list as `errors` (a class attribute).
CheckerWidget_doCheck_shared(W, w, objs, path, explicit, o) ==
    LET r == checkIt(w, W.errors[w], objs, settings, W.scene, o)
    IN  [W EXCEPT
            !.shown[w] = IF r.raised THEN <<>> ELSE r.errors,
            !.errors = [c \in DOMAIN W.errors |-> r.errors],
            !.calls = Append(@, Call("checkIt", w, objs,
                                     Some([path |-> path, explicit |-> explicit]),
                                     o, r.raised, <<>>)),
            !.raised = r.raised]

\* CheckerWidget.doCheck(objs); path is what objs was expanded from.
CheckerWidget_doCheck(W, w, objs, path, explicit, o) ==
    LET r == checkIt(w, W.errors[w], objs, settings, W.scene, o)
    IN  [W EXCEPT
            !.shown[w] = IF r.raised THEN <<>> ELSE r.errors,
            !.errors[w] = r.errors,
            !.calls = Append(@, Call("checkIt", w, objs,
                                     Some([path |-> path, explicit |-> explicit]),
                                     o, r.raised, <<>>)),
            !.raised = r.raised]

\* check() without "if not self.checker.isEnabled: return".
CheckerWidget_check_unguarded(W, w, path, o) ==
    IF path = None /\ ls_sl(W.scene) = <<>> THEN W
    ELSE LET p == IF path = None THEN ls_sl(W.scene)[1] ELSE path[1]
             children == listRelatives_ad(W.scene, <<p>>, "transform")
         IN  IF children.raised THEN [W EXCEPT !.raised = TRUE]
             ELSE CheckerWidget_doCheck(W, w, Append(OrEmpty(children), p), p,
                                        path # None, o)

\* check() that takes the last selected object, not the first, as its root.
CheckerWidget_check_lastSelected(W, w, path, o) ==
    IF ~isEnabled[w] THEN W
    ELSE IF path = None /\ ls_sl(W.scene) = <<>> THEN W
    ELSE LET p == IF path = None THEN ls_sl(W.scene)[Len(ls_sl(W.scene))] ELSE path[1]
             children == listRelatives_ad(W.scene, <<p>>, "transform")
         IN  IF children.raised THEN [W EXCEPT !.raised = TRUE]
             ELSE CheckerWidget_doCheck(W, w, Append(OrEmpty(children), p), p,
                                        path # None, o)

\* CheckerWidget.check(path): path is None when check() is called without one.
CheckerWidget_check(W, w, path, o) ==
    IF ~isEnabled[w] THEN W
    ELSE IF path = None /\ ls_sl(W.scene) = <<>> THEN W
    ELSE LET p == IF path = None THEN ls_sl(W.scene)[1] ELSE path[1]
             children == listRelatives_ad(W.scene, <<p>>, "transform")
         IN  IF children.raised THEN [W EXCEPT !.raised = TRUE]
             ELSE CheckerWidget_doCheck(W, w, Append(OrEmpty(children), p), p,
                                        path # None, o)

\* fix() without "if not self.checker.isEnabled: return".
CheckerWidget_fix_unguarded(W, w, o) ==
    LET f == fixIt(w, W.errors[w], W.scene)
        W1 == [W EXCEPT
                 !.scene = f.scene,
                 !.calls = Append(@, Call("fixIt", w, W.errors[w], None, NoAnswer,
                                          f.raised, f.done)),
                 !.raised = f.raised]
    IN  IF f.raised THEN W1 ELSE CheckerWidget_check(W1, w, None, o)

\* CheckerWidget.fix()
CheckerWidget_fix(W, w, o) ==
    IF ~isEnabled[w] THEN W
    ELSE LET f == fixIt(w, W.errors[w], W.scene)
             W1 == [W EXCEPT
                      !.scene = f.scene,
                      !.calls = Append(@, Call("fixIt", w, W.errors[w], None, NoAnswer,
                                               f.raised, f.done)),
                      !.raised = f.raised]
         IN  IF f.raised THEN W1 ELSE CheckerWidget_check(W1, w, None, o)

\* errorSelected that selects the owner along with the components.
CheckerWidget_errorSelected_withOwner(W, err) ==
    LET r == IF err.components = None
             THEN select_r(W.scene, <<err.longName>>)
             ELSE select_r(W.scene, <<err.longName>> \o err.components[1])
    IN  [W EXCEPT !.scene = r.scene, !.raised = r.raised]

\* CheckerWidget.errorSelected(err): err is the list item the user clicked.
CheckerWidget_errorSelected(W, err) ==
    LET r == IF err.components = None
             THEN select_r(W.scene, <<err.longName>>)
             ELSE select_r(W.scene, err.components[1])
    IN  [W EXCEPT !.scene = r.scene, !.raised = r.raised]

\* One iteration of the loop of checkAll: widget.check() or widget.check(node) when the
\* checker is enabled.  `visited` lists the widgets the loop has got to.
checkAll_iteration(W, num, node, o) ==
    LET w == checkerWidgets[num]
        W1 == [W EXCEPT !.visited = Append(@, w)]
    IN  IF isEnabled[w]
        THEN CheckerWidget_check(W1, w, IF node = <<>> THEN None ELSE Some(node), o)
        ELSE W1

\* fixAll: for widget in self.checkerWidgets: widget.fix().  An exception ends the loop.
RECURSIVE fixAll_loop(_, _, _)
fixAll_loop(W, num, os) ==
    IF num > Len(checkerWidgets) THEN W
    ELSE LET w == checkerWidgets[num]
             W1 == CheckerWidget_fix([W EXCEPT !.visited = Append(@, w)], w, os[num])
         IN  IF W1.raised THEN W1 ELSE fixAll_loop(W1, num + 1, os)

-----------------------------------------------------------------------------
(* The plugin's answers and the scenes the model starts from *)

Raw(owner, comp) == owner \o <<".", comp>>

\* Whether checkIt of the checker asks the meshChecker / uvChecker plugin.
AsksPlugin(c) ==
    c \in {"TriangleChecker", "UdimIntersectionChecker", "ZeroAreaFaceChecker",
           "VertexPntsChecker", "NonmanifoldVertexChecker"}

\* The answers the plugin gives the widgets: nothing found, or some defects.
Answers(c) ==
    CASE c = "ZeroAreaFaceChecker" -> {<<>>, <<Raw(AB, "f1"), Raw(AC, "f0"), Raw(AB, "f2")>>}
      [] c = "VertexPntsChecker" -> {<<>>, <<AB, AC>>}
      [] OTHER -> {<<>>}

Outcomes(c) ==
    {[raised |-> FALSE, ret |-> a] : a \in Answers(c)}
        \cup (IF AsksPlugin(c) THEN {[raised |-> TRUE, ret |-> <<>>]} ELSE {})

\* One outcome for each checker.
RECURSIVE OutcomesFor(_)
OutcomesFor(cs) ==
    IF cs = <<>> THEN {<<>>}
    ELSE {<<o>> \o rest : o \in Outcomes(Head(cs)), rest \in OutcomesFor(Tail(cs))}

\* How many things the user does in one run of the model.
MaxOps == 3

BaseScene ==
    [nodes |-> {A, AB, AC, ABs, ABo, ACs}, inMesh |-> {}, locked |-> {}, smooth |-> {},
     intermediate |-> {ABo}, sel |-> <<>>]

InitScenes ==
    {[BaseScene EXCEPT !.inMesh = h, !.sel = s] :
        h \in {{}, {ABs, ABo, ACs}}, s \in {<<>>, <<A>>}}

\* No checkAll is running.  A running one holds its position num, the root text node it
\* read at its start, the widgets it has got to, and whether the user has pressed Cancel
\* in its progress dialog.
Idle == [running |-> FALSE, num |-> 0, node |-> <<>>, log |-> <<>>, canceled |-> FALSE]

NoOp == [op |-> "init", w |-> "-", calls |-> <<>>, visited |-> <<>>, raised |-> FALSE,
         ended |-> FALSE]

InitWidgets ==
    /\ isEnabled = [c \in Checkers |-> isEnabledDefault(c)]
    /\ checkbox = [c \in Checkers |-> isEnabledDefault(c)]
    /\ sepChecked = [k \in Categories |-> TRUE]
    /\ allChecked = TRUE
    /\ errors = [c \in Checkers |-> <<>>]
    /\ shown = [c \in Checkers |-> <<>>]
    /\ rootLE = <<>>
    /\ batch = Idle
    /\ last = NoOp
    /\ steps = 0
    /\ built = ModelSanityChecker_init(CHECKERS)

Init ==
    /\ scene \in InitScenes
    /\ settings = "ok"
    /\ InitWidgets

-----------------------------------------------------------------------------
(* Actions *)

\* The user does one more thing to the window as it was built.
UserDoes ==
    /\ steps < MaxOps
    /\ steps' = steps + 1
    /\ UNCHANGED built

\* The handler's effects; `ended` says that a batch (checkAll, fixAll) is over.
Finish(W, op, w, ended) ==
    /\ scene' = W.scene
    /\ errors' = W.errors
    /\ shown' = W.shown
    /\ last' = [op |-> op, w |-> w, calls |-> W.calls, visited |-> W.visited,
                raised |-> W.raised, ended |-> ended]

\* check() of a checker widget, as the widget's buttons and fix() call it.
Check(w) ==
    \E o \in Outcomes(w) :
        /\ UserDoes
        /\ Finish(CheckerWidget_check(World, w, None, o), "check", w, FALSE)
        /\ UNCHANGED <<settings, isEnabled, checkbox, sepChecked, allChecked, rootLE, batch>>

\* The Fix button of a checker widget, or a call of its fix().
Fix(w) ==
    \E o \in Outcomes(w) :
        /\ UserDoes
        /\ Finish(CheckerWidget_fix(World, w, o), "fix", w, FALSE)
        /\ UNCHANGED <<settings, isEnabled, checkbox, sepChecked, allChecked, rootLE, batch>>

\* What the loop of checkAll does at position num, up to processEvents(); `log` is the
\* widgets whose check() the loop has called so far.
CheckAllStep(num, node, log) ==
    \E o \in Outcomes(checkerWidgets[num]) :
        LET w == checkerWidgets[num]
            W == checkAll_iteration([World EXCEPT !.visited = log], num, node, o)
            more == ~W.raised /\ num < Len(checkerWidgets)
        IN  /\ Finish(W, "checkAll", w, ~more)
            /\ batch' = IF more
                        THEN [running |-> TRUE, num |-> num, node |-> node, log |-> W.visited,
                              canceled |-> batch.canceled]
                        ELSE Idle
            /\ UNCHANGED <<settings, isEnabled, checkbox, sepChecked, allChecked, rootLE>>

\* The Check All button: checkAll up to its first processEvents().
CheckAll ==
    /\ ~batch.running
    /\ UserDoes
    /\ CheckAllStep(1, rootLE, <<>>)

\* checkAll goes on after processEvents() returns.
CheckAllResume ==
    /\ batch.running
    /\ UNCHANGED <<steps, built>>
    /\ CheckAllStep(batch.num + 1, batch.node, batch.log)

\* The Cancel button of the progress dialog of a running checkAll, pressed while the
\* loop is in processEvents(): the dialog notes it (wasCanceled) and nothing reads it.
Cancel ==
    /\ batch.running /\ ~batch.canceled
    /\ batch' = [batch EXCEPT !.canceled = TRUE]
    /\ UserDoes
    /\ last' = [NoOp EXCEPT !.op = "cancel"]
    /\ UNCHANGED <<scene, settings, isEnabled, checkbox, sepChecked, allChecked, errors,
                   shown, rootLE>>

\* The Fix All button.
FixAll ==
    \E os \in OutcomesFor(checkerWidgets) :
        /\ UserDoes
        /\ Finish(fixAll_loop(World, 1, os), "fixAll", "-", TRUE)
        /\ UNCHANGED <<settings, isEnabled, checkbox, sepChecked, allChecked, rootLE, batch>>

\* CheckerWidget.setEnabled(state): setChecked leaves a checkbox already in that state alone.
CheckerWidget_setEnabled(en, w, state) == [en EXCEPT ![w] = state]

\* The user clicks the checkbox of a checker widget: stateChanged -> toggleEnable.
ToggleEnable(w) ==
    /\ checkbox' = CheckerWidget_setEnabled(checkbox, w, ~checkbox[w])
    /\ isEnabled' = CheckerWidget_setEnabled(isEnabled, w, ~checkbox[w])
    /\ UserDoes
    /\ last' = [NoOp EXCEPT !.op = "toggleEnable", !.w = w]
    /\ UNCHANGED <<scene, settings, sepChecked, allChecked, errors, shown, rootLE, batch>>

\* Every checker's flag after Separator.checkboxToggle(state) of the separator of cat.
Separator_checkboxToggle_all(en, cat, state) == [w \in DOMAIN en |-> state]

\* Separator.checkboxToggle(state): w.setEnabled(state == 2) for the widgets of the
\* separator's category; en is a flag setEnabled sets (checkbox, isEnabled).
Separator_checkboxToggle(en, cat, state) ==
    [w \in DOMAIN en |-> IF category(w) = cat THEN state ELSE en[w]]

\* The user clicks the checkbox of the separator of category cat.
ToggleCategory(cat) ==
    /\ sepChecked' = [sepChecked EXCEPT ![cat] = ~@]
    /\ checkbox' = Separator_checkboxToggle(checkbox, cat, ~sepChecked[cat])
    /\ isEnabled' = Separator_checkboxToggle(isEnabled, cat, ~sepChecked[cat])
    /\ UserDoes
    /\ last' = [NoOp EXCEPT !.op = "toggleCategory"]
    /\ UNCHANGED <<scene, settings, allChecked, errors, shown, rootLE, batch>>

\* Every checker's flag after ModelSanityChecker.selectAllToggle(state):
\* s.checkbox.setChecked(state == 2) for every separator s; a separator's checkboxToggle
\* runs when that changes its checkbox.  sep is the separators' checkboxes before.
ModelSanityChecker_selectAllToggle(en, sep, state) ==
    [w \in DOMAIN en |-> IF sep[category(w)] # state THEN state ELSE en[w]]

\* The user clicks the Select All checkbox.
SelectAllToggle ==
    /\ allChecked' = ~allChecked
    /\ sepChecked' = [cat \in DOMAIN sepChecked |-> ~allChecked]
    /\ checkbox' = ModelSanityChecker_selectAllToggle(checkbox, sepChecked, ~allChecked)
    /\ isEnabled' = ModelSanityChecker_selectAllToggle(isEnabled, sepChecked, ~allChecked)
    /\ UserDoes
    /\ last' = [NoOp EXCEPT !.op = "selectAll"]
    /\ UNCHANGED <<scene, settings, errors, shown, rootLE, batch>>

\* The Set Selected button.
SetSelected ==
    /\ rootLE' = IF ls_sl(scene) # <<>> THEN ls_sl(scene)[1] ELSE rootLE
    /\ UserDoes
    /\ last' = [NoOp EXCEPT !.op = "setSelected"]
    /\ UNCHANGED <<scene, settings, isEnabled, checkbox, sepChecked, allChecked, errors,
                   shown, batch>>

\* The user types into the root field.
EditRoot(text) ==
    /\ text # rootLE
    /\ rootLE' = text
    /\ UserDoes
    /\ last' = [NoOp EXCEPT !.op = "editRoot"]
    /\ UNCHANGED <<scene, settings, isEnabled, checkbox, sepChecked, allChecked, errors,
                   shown, batch>>

\* The user changes the selection in Maya.
Select(s) ==
    /\ s # scene.sel
    /\ Range(s) \subseteq scene.nodes
    /\ scene' = [scene EXCEPT !.sel = s]
    /\ UserDoes
    /\ last' = [NoOp EXCEPT !.op = "select"]
    /\ UNCHANGED <<settings, isEnabled, checkbox, sepChecked, allChecked, errors, shown,
                   rootLE, batch>>

\* The user deletes a node in Maya.
Delete(n) ==
    /\ n \in scene.nodes
    /\ scene' = DeleteNode(scene, n)
    /\ UserDoes
    /\ last' = [NoOp EXCEPT !.op = "delete"]
    /\ UNCHANGED <<settings, isEnabled, checkbox, sepChecked, allChecked, errors, shown,
                   rootLE, batch>>

\* The user edits the "Max face area" field.
EditMaxFaceArea ==
    /\ settings' = IF settings = "ok" THEN "bad" ELSE "ok"
    /\ UserDoes
    /\ last' = [NoOp EXCEPT !.op = "editSettings"]
    /\ UNCHANGED <<scene, isEnabled, checkbox, sepChecked, allChecked, errors, shown,
                   rootLE, batch>>

Selections == {<<>>, <<A>>, <<AB>>}

RootTexts == {<<>>, A}

Deletable == {AB}

Next ==
    \/ \E w \in Checkers : Check(w)
    \/ \E w \in Checkers : Fix(w)
    \/ CheckAll
    \/ CheckAllResume
    \/ Cancel
    \/ FixAll
    \/ \E w \in Checkers : ToggleEnable(w)
    \/ \E cat \in Categories : ToggleCategory(cat)
    \/ SelectAllToggle
    \/ SetSelected
    \/ \E text \in RootTexts : EditRoot(text)
    \/ \E s \in Selections : Select(s)
    \/ \E n \in Deletable : Delete(n)
    \/ EditMaxFaceArea

Spec == Init /\ [][Next]_vars

-----------------------------------------------------------------------------
(* SpecCheckers: one checker object, its checkIt and fixIt called directly (as a    *)
(* caller other than the widgets may), with more plugin answers and more scenes.    *)

\* The checker classes modelled.
Classes ==
    Checkers \cup {"TriangleChecker", "UdimIntersectionChecker", "NonmanifoldVertexChecker",
                   "ShapeNameChecker", "LockedTransformChecker", "SmoothPreviewChecker"}

\* The class attribute isFixable.
isFixable(c) ==
    c \in {"VertexPntsChecker", "ShapeNameChecker", "HistoryChecker",
           "LockedTransformChecker", "SmoothPreviewChecker"}

\* Identifiers the plugin may answer with: owner.component, and one with a second ".".
RawIds ==
    {Raw(ABs, "f1"), Raw(ABs, "f2"), Raw(ACs, "f0"), Raw(ABs, "f1") \o <<".", "x">>}

\* The answers of the plugin: no identifier, one, or two.
DirectAnswers(c) ==
    IF c = "VertexPntsChecker" THEN {<<>>, <<AB>>, <<AB, AC>>}
    ELSE IF AsksPlugin(c) THEN {<<>>} \cup {<<x>> : x \in RawIds}
                                     \cup {<<x, y>> : x \in RawIds, y \in RawIds}
    ELSE {<<>>}

DirectOutcomes(c) ==
    {[raised |-> FALSE, ret |-> a] : a \in DirectAnswers(c)}
        \cup (IF AsksPlugin(c) THEN {[raised |-> TRUE, ret |-> <<>>]} ELSE {})

\* The object lists handed to checkIt: a root with its descendant transforms, or a leaf.
Targets == {<<AB, AC, A>>, <<AC>>}

\* What checkIt gets as settings: a Settings widget with a number in it, one without,
\* or None.
SettingsArgs == {"ok", "none"}

LockedSome == {<<AB, "ty">>, <<AB, "sz">>, <<AC, "rx">>}

DirectScenes ==
    {[nodes |-> {A, AB, AC, shape, ABo, ACs},
      inMesh |-> IF dirty THEN {shape, ABo, ACs} ELSE {},
      locked |-> IF dirty THEN LockedSome ELSE {},
      smooth |-> IF dirty THEN {shape, ACs} ELSE {},
      intermediate |-> {ABo},
      sel |-> <<>>] : shape \in {ABm, ABs}, dirty \in BOOLEAN}

InitCheckers ==
    /\ scene \in DirectScenes
    /\ settings = "ok"
    /\ isEnabled = [c \in Classes |-> isEnabledDefault(c)]
    /\ checkbox = [c \in Classes |-> isEnabledDefault(c)]
    /\ sepChecked = [k \in Categories |-> TRUE]
    /\ allChecked = TRUE
    /\ errors = [c \in Classes |-> <<>>]
    /\ shown = [c \in Classes |-> <<>>]
    /\ rootLE = <<>>
    /\ batch = Idle
    /\ last = NoOp
    /\ steps = 0
    /\ built = ModelSanityChecker_init(CHECKERS)

\* checker.checkIt(objs, settings) on the object the run drives.
CallCheckIt(c) ==
    \E objs \in Targets, st \in SettingsArgs, o \in DirectOutcomes(c) :
        LET r == checkIt(c, errors[c], objs, st, scene, o)
        IN  /\ last.w \in {"-", c}
            /\ UserDoes
            /\ errors' = [errors EXCEPT ![c] = r.errors]
            /\ last' = [NoOp EXCEPT !.op = "checkIt", !.w = c, !.raised = r.raised,
                          !.calls = <<Call("checkIt", c, objs, None, o, r.raised, <<>>)>>]
            /\ UNCHANGED <<scene, settings, isEnabled, checkbox, sepChecked, allChecked,
                           shown, rootLE, batch>>

\* checker.fixIt() on the object the run drives.
CallFixIt(c) ==
    LET f == fixIt(c, errors[c], scene)
    IN  /\ last.w \in {"-", c}
        /\ UserDoes
        /\ scene' = f.scene
        /\ last' = [NoOp EXCEPT !.op = "fixIt", !.w = c, !.raised = f.raised,
                      !.calls = <<Call("fixIt", c, errors[c], None, NoAnswer, f.raised,
                                       f.done)>>]
        /\ UNCHANGED <<settings, isEnabled, checkbox, sepChecked, allChecked, errors,
                       shown, rootLE, batch>>

\* The user deletes a node in Maya between two calls.
DirectDelete(n) ==
    /\ n \in scene.nodes
    /\ UserDoes
    /\ scene' = DeleteNode(scene, n)
    /\ last' = [NoOp EXCEPT !.op = "delete", !.w = last.w]
    /\ UNCHANGED <<settings, isEnabled, checkbox, sepChecked, allChecked, errors, shown,
                   rootLE, batch>>

DirectDeletable == {AB, ABm, ABs, ACs}

NextCheckers ==
    \/ \E c \in Classes : CallCheckIt(c)
    \/ \E c \in Classes : CallFixIt(c)
    \/ \E n \in DirectDeletable : DirectDelete(n)

SpecCheckers == InitCheckers /\ [][NextCheckers]_vars

-----------------------------------------------------------------------------
(* Properties of the widgets (checked under Spec) *)

Handlers == {"check", "fix", "checkAll", "fixAll"}

\* The calls of fn on checker c that the handler of record l made.
CallsOf(l, fn, c) == {i \in 1..Len(l.calls) : l.calls[i].fn = fn /\ l.calls[i].c = c}

\* C2: a batch is over only when its loop has got to every widget, whether or not a
\* checker raised on the way.
C2_BatchFailureContained ==
    last.ended => Len(last.visited) = Len(checkerWidgets)

\* C4: when fix() follows a check of the same checker that ran on an explicit root (the
\* root field, as checkAll passes it) and fixIt does not raise, the re-check of fix()
\* runs on that root.
C4_RecheckSameTarget ==
    [][\A w \in Checkers : \A i \in CallsOf(last, "checkIt", w) :
          (/\ last.calls[i].path[1].explicit
           /\ last'.op = "fix" /\ last'.w = w /\ isEnabled[w] /\ ~last'.raised)
          => \E j \in CallsOf(last', "checkIt", w) :
                last'.calls[j].path[1].path = last.calls[i].path[1].path]_vars

\* C5: after a fix() of an enabled checker whose fixIt acted on some Finding and did not
\* raise, the cached and the displayed findings are those of a check run after fixIt.
C5_FixRefreshes ==
    (/\ last.op = "fix" /\ isEnabled[last.w] /\ ~last.raised
     /\ \E i \in CallsOf(last, "fixIt", last.w) : last.calls[i].done # <<>>)
    => (/\ \E i \in CallsOf(last, "fixIt", last.w), j \in CallsOf(last, "checkIt", last.w) :
              i < j
        /\ shown[last.w] = errors[last.w])

\* C8: check, fix, checkAll and fixAll call neither checkIt nor fixIt of a checker whose
\* isEnabled is false, and leave its errors as they were.
C8_DisabledUntouched ==
    [][\A w \in Checkers :
          (~isEnabled[w] /\ last'.op \in Handlers)
          => (/\ errors'[w] = errors[w]
              /\ \A i \in 1..Len(last'.calls) : last'.calls[i].c # w)]_vars

\* C8 witness: fixAll has run past a disabled checker that holds cached findings.
C8_Witness ==
    /\ last.op = "fixAll" /\ last.ended
    /\ \E w \in Checkers : ~isEnabled[w] /\ errors[w] # <<>> /\ w \in Range(last.visited)

\* C9 as claimed: check() or fix() of a widget whose checker is disabled still runs
\* checkIt / fixIt (for check(), when something is selected to check).
C9_ManualIgnoresEnabled ==
    (/\ last.op \in {"check", "fix"} /\ ~isEnabled[last.w]
     /\ (last.op = "check" => scene.sel # <<>>))
    => last.calls # <<>>

\* C9, amended: check() and fix() of a widget whose checker is disabled return at once:
\* they call neither checkIt nor fixIt and raise nothing.
C9_ManualHonorsEnabled ==
    (last.op \in {"check", "fix"} /\ ~isEnabled[last.w])
    => (last.calls = <<>> /\ ~last.raised)

\* C9 witness: fix() of a disabled checker that holds cached findings, with a selection
\* to re-check.
C9_Witness ==
    /\ last.op = "fix" /\ ~isEnabled[last.w]
    /\ errors[last.w] # <<>> /\ scene.sel # <<>>

-----------------------------------------------------------------------------
(* Properties of the checker objects (checked under SpecCheckers, but for C3) *)

\* The checkers whose checkIt groups "owner.component" answers by owner with no other
\* step that may fail.
Aggregating == {"TriangleChecker", "UdimIntersectionChecker"}

Dots(e) == {i \in 1..Len(e) : e[i] = "."}

\* The text before the only "." of e.
OwnerOf(e) == SubSeq(e, 1, (CHOOSE i \in Dots(e) : TRUE) - 1)

\* The identifiers held by the findings fs.
ComponentsOf(fs) == UNION {Range(fs[j].components[1]) : j \in 1..Len(fs)}

\* C1: when the plugin answers an aggregating checkIt with identifiers that hold
\* exactly one "." each, checkIt caches one Finding per distinct owner, each owned by
\* the owner of its identifiers, and the identifiers of all Findings together are
\* those the plugin answered.
C1_AggregationCorrect ==
    \A i \in 1..Len(last.calls) :
        LET k == last.calls[i]
        IN  (/\ k.fn = "checkIt" /\ k.c \in Aggregating /\ ~k.o.raised
             /\ \A e \in Range(k.o.ret) : Cardinality(Dots(e)) = 1)
            => (/\ ~k.raised
                /\ Len(errors[k.c]) = Cardinality({OwnerOf(e) : e \in Range(k.o.ret)})
                /\ \A j \in 1..Len(errors[k.c]) :
                      \A e \in Range(errors[k.c][j].components[1]) :
                          OwnerOf(e) = errors[k.c][j].longName
                /\ ComponentsOf(errors[k.c]) = Range(k.o.ret))

\* C1 witness: the plugin named two different components of one owner, and checkIt
\* cached one Finding that holds both.
C1_Witness ==
    /\ last.op = "checkIt" /\ last.w \in Aggregating /\ ~last.raised
    /\ Len(errors[last.w]) = 1
    /\ Cardinality(Range(errors[last.w][1].components[1])) = 2

\* C3: no two findings a checker caches have the same owner.
C3_NoDuplicateOwners ==
    \A c \in DOMAIN errors : \A i, j \in 1..Len(errors[c]) :
        errors[c][i].longName = errors[c][j].longName => i = j

\* C6: fixIt of a fixable checker does not raise, and acts on every cached Finding
\* whose owner is in the scene when fixIt is called.
C6_FixItToleratesStale ==
    [][(last'.op = "fixIt" /\ isFixable(last'.w))
       => LET k == last'.calls[1]
          IN  /\ ~k.raised
              /\ \A j \in 1..Len(k.arg) :
                    objExists(scene, k.arg[j].longName)
                    => k.arg[j].longName \in Range(k.done)]_vars

\* C7: a checkIt that raises leaves the cached findings of its checker as they were.
C7_FailedCheckKeepsErrors ==
    [][(last'.op = "checkIt" /\ last'.raised) => errors'[last'.w] = errors[last'.w]]_vars

\* The checkers whose checkIt asks the plugin and does nothing else before that could
\* fail.
PluginFirst == {"TriangleChecker", "UdimIntersectionChecker", "VertexPntsChecker"}

\* C10: when the call of the plugin raises, checkIt does not raise and caches no
\* finding.
C10_OracleFailureContained ==
    \A i \in 1..Len(last.calls) :
        LET k == last.calls[i]
        IN  (k.fn = "checkIt" /\ k.c \in PluginFirst /\ k.o.raised)
            => (~k.raised /\ errors[k.c] = <<>>)

\* The text before the first "." of e.
FirstOwner(e) == SubSeq(e, 1, (CHOOSE i \in Dots(e) : \A j \in Dots(e) : i <= j) - 1)

\* C11: when every identifier the plugin answers holds a "." (one or more), an
\* aggregating checkIt does not raise, and the owners of the findings it caches are the
\* prefixes before the first "." of the identifiers.
C11_SplitOnFirstDot ==
    \A i \in 1..Len(last.calls) :
        LET k == last.calls[i]
        IN  (/\ k.fn = "checkIt" /\ k.c \in Aggregating /\ ~k.o.raised
             /\ \A e \in Range(k.o.ret) : Dots(e) # {})
            => (/\ ~k.raised
                /\ {errors[k.c][j].longName : j \in 1..Len(errors[k.c])}
                      = {FirstOwner(e) : e \in Range(k.o.ret)})

-----------------------------------------------------------------------------
(* Properties of the batch order and of the startup sort *)

\* Where x is in the sequence s.
PosIn(s, x) == CHOOSE i \in 1..Len(s) : s[i] = x

Batches == {"checkAll", "fixAll"}

\* C12 as claimed: the widgets a batch gets to, it gets to in the order of CHECKERS.
C12_RegistryOrder ==
    last.op \in Batches
    => \A i, j \in 1..Len(last.visited) :
          i < j => PosIn(CHECKERS, last.visited[i]) < PosIn(CHECKERS, last.visited[j])

\* C12, amended: a batch gets to the widgets in ascending order of category, those of one
\* category in the order of CHECKERS, each once; a batch that ends without raising has
\* got to all of them; and it calls checkIt and fixIt of enabled checkers only, in that
\* same order.
C12_CategoryOrder ==
    last.op \in Batches
    => /\ \A i, j \in 1..Len(last.visited) :
             i < j => LET x == last.visited[i]
                          y == last.visited[j]
                      IN  \/ StrLt(category(x), category(y))
                          \/ /\ category(x) = category(y)
                             /\ PosIn(CHECKERS, x) < PosIn(CHECKERS, y)
       /\ (last.ended /\ ~last.raised) => Range(last.visited) = Checkers
       /\ \A i \in 1..Len(last.calls) :
             /\ isEnabled[last.calls[i].c]
             /\ last.calls[i].c \in Range(last.visited)
             /\ \A j \in 1..Len(last.calls) :
                   i < j => PosIn(last.visited, last.calls[i].c)
                               <= PosIn(last.visited, last.calls[j].c)

\* C12 witness: fixAll has gone through all the widgets, one of them disabled, and has
\* called more than one checker.
C12_Witness ==
    /\ last.op = "fixAll" /\ last.ended /\ ~last.raised
    /\ Len(last.visited) = Len(CHECKERS)
    /\ \E w \in Checkers : ~isEnabled[w]
    /\ Cardinality({last.calls[i].c : i \in 1..Len(last.calls)}) > 1

-----------------------------------------------------------------------------
(* SpecSort: the window is built from any registry of up to MaxRegistry different   *)
(* checker classes.                                                                 *)

MaxRegistry == 3

\* The lists of up to n different classes.
Registries(n) ==
    UNION {{r \in [1..k -> Classes] : \A i, j \in 1..k : i < j => r[i] # r[j]} : k \in 0..n}

InitSort ==
    /\ scene = BaseScene
    /\ settings = "ok"
    /\ isEnabled = [c \in Classes |-> isEnabledDefault(c)]
    /\ checkbox = [c \in Classes |-> isEnabledDefault(c)]
    /\ sepChecked = [k \in Categories |-> TRUE]
    /\ allChecked = TRUE
    /\ errors = [c \in Classes |-> <<>>]
    /\ shown = [c \in Classes |-> <<>>]
    /\ rootLE = <<>>
    /\ batch = Idle
    /\ last = NoOp
    /\ steps = 0
    /\ built = ModelSanityChecker_init(<<>>)

\* ModelSanityChecker(...) for the registry, once.
Construct(registry) ==
    /\ built.registry = <<>>
    /\ built' = ModelSanityChecker_init(registry)
    /\ last' = [NoOp EXCEPT !.op = "init"]
    /\ UNCHANGED <<scene, settings, isEnabled, checkbox, sepChecked, allChecked, errors,
                   shown, rootLE, batch, steps>>

NextSort == \E registry \in Registries(MaxRegistry) : Construct(registry)

SpecSort == InitSort /\ [][NextSort]_vars

\* C13: the widget list holds the checkers of the registry, each once, in ascending
\* order of category, and two checkers of one category are in the order they have in
\* the registry.
C13_SortedStable ==
    LET r == built.registry
        s == built.widgets
    IN  /\ Len(s) = Len(r)
        /\ Range(s) = Range(r)
        /\ \A i, j \in 1..Len(s) :
              i < j => /\ ~StrLt(category(s[j]), category(s[i]))
                       /\ category(s[i]) = category(s[j])
                          => PosIn(r, s[i]) < PosIn(r, s[j])

\* C13 witness: a registry that is not in category order and holds two checkers of one
\* category, registered in the order opposite to the one they have in CHECKERS.
C13_Witness ==
    /\ built.widgets # built.registry
    /\ \E i, j \in 1..Len(built.registry) :
          /\ i < j
          /\ category(built.registry[i]) = category(built.registry[j])
          /\ built.registry[i] = "SmoothPreviewChecker"
          /\ built.registry[j] = "LockedTransformChecker"

\* C14: once the user has pressed Cancel in the progress dialog of a running checkAll,
\* the loop runs no further checker.
C14_CancelHonored ==
    [][(batch.running /\ batch.canceled)
       => ~(last'.op = "checkAll" /\ last'.calls # <<>>)]_vars

-----------------------------------------------------------------------------
(* Properties of the enable flags *)

\* C15: a click on the checkbox of one category's separator sets isEnabled (and the
\* checkbox) of the checkers of that category to the separator's new state and leaves
\* those of every checker of another category as they were.
C15_CategoryToggleScope ==
    [][\A cat \in Categories :
          (last'.op = "toggleCategory" /\ sepChecked'[cat] # sepChecked[cat])
          => \A w \in Checkers :
                IF category(w) = cat
                THEN isEnabled'[w] = sepChecked'[cat] /\ checkbox'[w] = sepChecked'[cat]
                ELSE isEnabled'[w] = isEnabled[w] /\ checkbox'[w] = checkbox[w]]_vars

\* C15 witness: a category has been switched off while a checker of another category is
\* enabled and one of yet another is disabled.
C15_Witness ==
    /\ last.op = "toggleCategory"
    /\ \E cat \in Categories :
          /\ ~sepChecked[cat]
          /\ \E w \in Checkers : category(w) = cat /\ ~isEnabled[w]
          /\ \E w \in Checkers : category(w) # cat /\ isEnabled[w]
          /\ \E w \in Checkers : category(w) # cat /\ ~isEnabled[w]

-----------------------------------------------------------------------------
(* SpecWidget: the user works with one checker widget (its Check and Fix buttons)   *)
(* and changes the selection in Maya in between.                                    *)

WidgetSelections == {<<>>, <<A>>, <<AB, A>>}

\* The user changes the selection in Maya; the widget in use stays the same.
Reselect(s) ==
    /\ s # scene.sel
    /\ scene' = [scene EXCEPT !.sel = s]
    /\ last' = [NoOp EXCEPT !.op = "select", !.w = last.w]
    /\ UNCHANGED <<settings, isEnabled, checkbox, sepChecked, allChecked, errors, shown,
                   rootLE, batch, steps, built>>

\* The Check button of the widget in use.
WidgetCheck(w) == last.w \in {"-", w} /\ Check(w)

\* The Fix button of the widget in use.
WidgetFix(w) == last.w \in {"-", w} /\ Fix(w)

NextWidget ==
    \/ \E w \in Classes : WidgetCheck(w)
    \/ \E w \in Classes : WidgetFix(w)
    \/ \E s \in WidgetSelections : Reselect(s)

SpecWidget == InitCheckers /\ [][NextWidget]_vars

\* C16: when fix() of an enabled checker follows a fix() of the same checker that fixed
\* something and did not raise, with nothing done in between and no failure of the
\* plugin, the second fix()
\* does not raise and leaves the scene as the first left it, and (for a checker that
\* reads the scene only) the cached findings as well.
C16_FixIdempotent ==
    [][(/\ last.op = "fix" /\ ~last.raised
        /\ \E i \in CallsOf(last, "fixIt", last.w) : last.calls[i].done # <<>>
        /\ last'.op = "fix" /\ last'.w = last.w /\ isEnabled[last.w]
        /\ \A i \in 1..Len(last'.calls) : ~last'.calls[i].o.raised)
       => (/\ ~last'.raised
           /\ scene' = scene
           /\ ~AsksPlugin(last.w) => errors'[last.w] = errors[last.w])]_vars

-----------------------------------------------------------------------------
(* More properties of the checker objects (checked under SpecCheckers) *)

\* C17: checkIt of a checker that takes no settings, called on objects of the scene
\* that have no mesh below them, with the plugin finding nothing, does not raise and
\* caches no finding.
C17_NothingToInspectSafe ==
    \A i \in 1..Len(last.calls) :
        LET k == last.calls[i]
        IN  (/\ k.fn = "checkIt" /\ k.c # "ZeroAreaFaceChecker"
             /\ ~k.o.raised /\ k.o.ret = <<>>
             /\ Range(k.arg) \subseteq scene.nodes
             /\ \A n \in scene.nodes : NodeType(n) = "mesh"
                                        => \A j \in 1..Len(k.arg) : ~IsUnder(n, k.arg[j]))
            => (~k.raised /\ errors[k.c] = <<>>)

\* C18: after a checkIt that did not raise, the cached findings are those of that call
\* alone, whatever was cached before: what checkIt computes from an empty cache, and,
\* for an aggregating checker, findings that hold the identifiers of this call's answer
\* and no other.
C18_ReplaceNotAppend ==
    [][(last'.op = "checkIt" /\ ~last'.raised)
       => LET k == last'.calls[1]
          IN  /\ errors'[k.c] = checkIt(k.c, <<>>, k.arg, "ok", scene', k.o).errors
              /\ k.c \in Aggregating => ComponentsOf(errors'[k.c]) = Range(k.o.ret)]_vars

\* C18 witness: HistoryChecker had cached findings, fixIt has removed the history they
\* were about, and a second checkIt has left the cache empty.
C18_Witness ==
    /\ last.op = "checkIt" /\ last.w = "HistoryChecker" /\ ~last.raised
    /\ scene.inMesh = {} /\ scene.locked # {}
    /\ errors["HistoryChecker"] = <<>>

-----------------------------------------------------------------------------
(* Properties of one widget (checked under SpecWidget) *)

\* C19: check() of an enabled checker, called with no path: with nothing selected it
\* calls nothing, raises nothing and leaves the cached and the shown findings alone;
\* otherwise it calls checkIt once, on the transforms below the first selected object
\* followed by that object.
C19_CheckWithoutRoot ==
    [][(last'.op = "check" /\ isEnabled[last'.w])
       => IF ls_sl(scene) = <<>>
          THEN /\ last'.calls = <<>> /\ ~last'.raised
               /\ errors' = errors /\ shown' = shown
          ELSE /\ Len(last'.calls) = 1
               /\ LET k == last'.calls[1]
                      root == ls_sl(scene)[1]
                  IN  /\ k.fn = "checkIt" /\ k.c = last'.w
                      /\ k.arg[Len(k.arg)] = root
                      /\ {k.arg[j] : j \in 1..(Len(k.arg) - 1)}
                            = {n \in scene.nodes : NodeType(n) = "transform"
                                                    /\ IsUnder(n, root)}]_vars

\* C19 witness: check() has run with two objects selected, the first of them below the
\* second, and has checked the first.
C19_Witness ==
    /\ last.op = "check" /\ isEnabled[last.w]
    /\ ls_sl(scene) = <<AB, A>>
    /\ Len(last.calls) = 1
    /\ last.calls[1].arg = <<AB>>

-----------------------------------------------------------------------------
(* Properties of the checkers' caches (checked under Spec) *)

\* C20: a step in which checkIt or fixIt runs, whether it returns or raises (a
\* ZeroAreaFaceChecker without its settings included), leaves the `errors` of every
\* checker it did not call as they were.
C20_OtherCachesUntouched ==
    [][\A c \in Checkers :
          (\A i \in DOMAIN last'.calls : last'.calls[i].c # c)
             => errors'[c] = errors[c]]_vars

\* A ZeroAreaFaceChecker check has just failed for its settings while another checker
\* holds findings.
C20_Witness ==
    /\ last.op = "check" /\ last.w = "ZeroAreaFaceChecker"
    /\ settings = "bad" /\ last.raised
    /\ Len(last.calls) = 1 /\ ~last.calls[1].o.raised
    /\ \E c \in Checkers \ {"ZeroAreaFaceChecker"} : errors[c] # <<>>

-----------------------------------------------------------------------------
(* SpecSelect: the user works with one checker widget: the Check button, clicks on  *)
(* the items of its list, and in Maya changes the selection and deletes nodes.      *)

\* The Check button of the widget in use, pressed while objects are selected.
SelectCheck(w) ==
    /\ last.w \in {"-", w}
    /\ Range(ls_sl(scene)) \subseteq scene.nodes
    /\ Check(w)

\* The user clicks item number i of the list of checker widget w: itemClicked ->
\* errorSelected.
ErrorSelected(w, i) ==
    /\ last.w \in {"-", w}
    /\ i \in 1..Len(shown[w])
    /\ UserDoes
    /\ LET W == CheckerWidget_errorSelected(World, shown[w][i])
       IN  /\ scene' = W.scene
           /\ last' = [NoOp EXCEPT !.op = "errorSelected", !.w = w, !.raised = W.raised,
                         !.calls = <<Call("select", w, <<shown[w][i]>>, None, NoAnswer,
                                          W.raised, <<>>)>>]
    /\ UNCHANGED <<settings, isEnabled, checkbox, sepChecked, allChecked, errors, shown,
                   rootLE, batch>>

NextSelect ==
    \/ \E w \in Classes : SelectCheck(w)
    \/ \E w \in Classes : \E i \in 1..Len(shown[w]) : ErrorSelected(w, i)
    \/ \E s \in WidgetSelections : Reselect(s)
    \/ \E n \in DirectDeletable : DirectDelete(n)

SpecSelect == InitCheckers /\ [][NextSelect]_vars

\* C21: a click on a Finding whose objects are all in the scene does not raise and
\* makes the selection exactly the owner when components is None, and exactly the
\* components, the owner not among them, when there are components; a click on a
\* Finding of which the scene lacks an object raises and leaves the selection.
C21_SelectionMapping ==
    [][last'.op = "errorSelected"
       => LET err == last'.calls[1].arg[1]
              items == IF err.components = None THEN {err.longName}
                       ELSE Range(err.components[1])
          IN  IF \A x \in items : NodeOf(x) \in scene.nodes
              THEN /\ ~last'.raised
                   /\ Range(ls_sl(scene')) = items
                   /\ Len(ls_sl(scene')) = Cardinality(items)
                   /\ err.components # None => err.longName \notin Range(ls_sl(scene'))
              ELSE /\ last'.raised
                   /\ scene' = scene]_vars

\* A click on a Finding with two components has selected them.
C21_Witness ==
    /\ last.op = "errorSelected" /\ ~last.raised
    /\ last.calls[1].arg[1].components # None
    /\ Len(ls_sl(scene)) = 2
    /\ Range(ls_sl(scene)) = Range(last.calls[1].arg[1].components[1])

\* A click on a Finding without components has selected its owner.
C21_WitnessOwner ==
    /\ last.op = "errorSelected" /\ ~last.raised
    /\ last.calls[1].arg[1].components = None
    /\ ls_sl(scene) = <<last.calls[1].arg[1].longName>>

-----------------------------------------------------------------------------
(* Properties of the list widgets (checked under Spec) *)

\* C22: whatever checks and fixes have run, and whether or not a checkIt raised, the
\* list widget of every checker shows exactly the checker's cached errors.
C22_ShownIsCached ==
    \A c \in Checkers : shown[c] = errors[c]

-----------------------------------------------------------------------------
(* Properties of the Select All checkbox (checked under Spec) *)

\* C23: whatever checkboxes have been clicked before, a click that checks Select All
\* leaves every checker enabled, and a click that unchecks it leaves every checker
\* disabled.
C23_SelectAllSetsEvery ==
    [][last'.op = "selectAll"
       => \A w \in Checkers : isEnabled'[w] = allChecked']_vars

====
